---- MODULE Spec2Model ----
(***************************************************************************)
(* Flounder::Swapchain (renderer/swapchain/Swapchain.cpp).                 *)
(*                                                                         *)
(* The module holds three specifications over the same variables:          *)
(*   Spec        the life cycle of one Swapchain object: Create,           *)
(*               CreateFramebuffers, CleanupFrameBuffers, Cleanup and the  *)
(*               destructor, against a platform that hands out handles and *)
(*               records every call it receives;                           *)
(*   SpecFaults  the same life cycle, the platform answering some calls    *)
(*               with a non-success code;                                  *)
(*   SpecSelect  the selection functions (ChooseSwapSurfaceFormat,         *)
(*               ChooseSwapPresentMode, ChooseSwapExtent) and the image    *)
(*               count computation of Create, applied to inputs drawn from *)
(*               bounded sets.                                             *)
(***************************************************************************)
EXTENDS Integers, Sequences, FiniteSets, TLC

VARIABLES
    m_swapChain,              \* VkSwapchainKHR, VK_NULL_HANDLE after construction
    m_swapChainImages,        \* std::vector<VkImage>
    m_swapChainImageViews,    \* std::vector<VkImageView>
    m_swapChainFramebuffers,  \* std::vector<VkFramebuffer>
    m_swapChainImageFormat,   \* VkFormat
    m_swapChainExtent,        \* VkExtent2D
    platform,                 \* the platform's objects: see PlatformInit
    calls,                    \* the platform calls issued by the last operation, in order
    lastOp,                   \* the last operation called on the object
    fatal,                    \* ErrorCheck has terminated an operation
    destructed,               \* the destructor has run
    opCount,                  \* operations called so far
    faultsLeft,               \* non-success results the platform may still return
    sel                       \* SpecSelect: the selection function applied, its input and its result

vars == <<m_swapChain, m_swapChainImages, m_swapChainImageViews, m_swapChainFramebuffers,
          m_swapChainImageFormat, m_swapChainExtent, platform, calls, lastOp, fatal,
          destructed, opCount, faultsLeft, sel>>

(***************************************************************************)
(* Bounds.                                                                 *)
(***************************************************************************)
\* uint32_t is modelled UintBits wide: TLC's integers are 32-bit signed, so 2^32 is out of reach.
UintBits == 12
\* Longest format sequence given to ChooseSwapSurfaceFormat.
MaxFormats == 3
\* Longest present-mode sequence given to ChooseSwapPresentMode.
MaxModes == 3
\* Extents 0..MaxSmallExtent (and the two largest unsigned values) are tried as extent limits.
MaxSmallExtent == 2
\* Operations called on one object before its destructor.
MaxOps == 4
\* Images the platform allocates for one chain.
MaxImages == 2
\* Non-success results the platform returns in one run of SpecFaults.
MaxFailures == 1
\* Image counts 0..MaxSmallCount (and the two largest unsigned values) are tried as count limits.
MaxSmallCount == 3

(***************************************************************************)
(* Values of the platform's types.                                         *)
(***************************************************************************)
VK_NULL_HANDLE == 0
Uint32Modulus == 2 ^ UintBits
UINT32_MAX == Uint32Modulus - 1
\* static_cast<uint32_t>(int)
ToUint32(i) == i % Uint32Modulus

VkFormats == {"VK_FORMAT_UNDEFINED", "VK_FORMAT_B8G8R8A8_UNORM", "VK_FORMAT_R8G8B8A8_UNORM"}
VkColorSpaces == {"VK_COLOR_SPACE_SRGB_NONLINEAR_KHR", "VK_COLOR_SPACE_ADOBERGB_LINEAR_EXT"}
VkPresentModes == {"VK_PRESENT_MODE_IMMEDIATE_KHR", "VK_PRESENT_MODE_MAILBOX_KHR",
                   "VK_PRESENT_MODE_FIFO_KHR", "VK_PRESENT_MODE_FIFO_RELAXED_KHR"}
VkSurfaceFormats == [format : VkFormats, colorSpace : VkColorSpaces]

\* VkFormat() and VkExtent2D(): value-initialised members of a new object.
ZeroFormat == "VK_FORMAT_UNDEFINED"
ZeroExtent == [width |-> 0, height |-> 0]

PreferredFormat == [format |-> "VK_FORMAT_B8G8R8A8_UNORM",
                    colorSpace |-> "VK_COLOR_SPACE_SRGB_NONLINEAR_KHR"]

StdMax(a, b) == IF a < b THEN b ELSE a
StdMin(a, b) == IF b < a THEN b ELSE a

SeqsUpTo(S, n) == UNION {[1..k -> S] : k \in 0..n}
Range(f) == {f[x] : x \in DOMAIN f}

(***************************************************************************)
(* The selection functions.                                                *)
(***************************************************************************)
\* The range-for of ChooseSwapSurfaceFormat from index i on; oob is what the read of
\* availableFormats[0] yields when the vector is empty.
RECURSIVE ScanSurfaceFormats(_, _, _)
ScanSurfaceFormats(availableFormats, i, oob) ==
    IF i > Len(availableFormats)
    THEN IF Len(availableFormats) = 0 THEN oob ELSE availableFormats[1]
    ELSE IF /\ availableFormats[i].format = "VK_FORMAT_B8G8R8A8_UNORM"
            /\ availableFormats[i].colorSpace = "VK_COLOR_SPACE_SRGB_NONLINEAR_KHR"
         THEN availableFormats[i]
         ELSE ScanSurfaceFormats(availableFormats, i + 1, oob)

\* A plausible slip: the fallback returns the preferred pair instead of the first entry.
ChooseSwapSurfaceFormat_FallbackPreferred(availableFormats, oob) ==
    PreferredFormat

\* A plausible slip: the sentinel test is forgotten.
ChooseSwapSurfaceFormat_NoSentinel(availableFormats, oob) ==
    ScanSurfaceFormats(availableFormats, 1, oob)

ChooseSwapSurfaceFormat(availableFormats, oob) ==
    IF Len(availableFormats) = 1 /\ availableFormats[1].format = "VK_FORMAT_UNDEFINED"
    THEN PreferredFormat
    ELSE ScanSurfaceFormats(availableFormats, 1, oob)

\* The scan of ChooseSwapPresentMode from index i on, bestMode being the mode remembered so far.
RECURSIVE ScanPresentModes(_, _, _)
ScanPresentModes(availablePresentModes, i, bestMode) ==
    IF i > Len(availablePresentModes) THEN bestMode
    ELSE IF availablePresentModes[i] = "VK_PRESENT_MODE_MAILBOX_KHR"
         THEN availablePresentModes[i]
         ELSE ScanPresentModes(availablePresentModes, i + 1,
                               IF availablePresentModes[i] = "VK_PRESENT_MODE_IMMEDIATE_KHR"
                               THEN availablePresentModes[i] ELSE bestMode)

\* A plausible slip: the scan returns at the first mailbox or immediate entry.
RECURSIVE ScanPresentModes_FirstHit(_, _, _)
ScanPresentModes_FirstHit(availablePresentModes, i, bestMode) ==
    IF i > Len(availablePresentModes) THEN bestMode
    ELSE IF availablePresentModes[i] \in {"VK_PRESENT_MODE_MAILBOX_KHR",
                                          "VK_PRESENT_MODE_IMMEDIATE_KHR"}
         THEN availablePresentModes[i]
         ELSE ScanPresentModes_FirstHit(availablePresentModes, i + 1, bestMode)

ChooseSwapPresentMode_FirstHit(availablePresentModes) ==
    ScanPresentModes_FirstHit(availablePresentModes, 1, "VK_PRESENT_MODE_FIFO_KHR")

\* A plausible slip: the default is the first listed mode instead of FIFO.
ChooseSwapPresentMode_DefaultFirst(availablePresentModes) ==
    ScanPresentModes(availablePresentModes, 1,
                     IF availablePresentModes = <<>> THEN "VK_PRESENT_MODE_FIFO_KHR"
                     ELSE availablePresentModes[1])

\* A plausible slip: a FIFO entry replaces a remembered immediate entry.
RECURSIVE ScanPresentModes_LastWins(_, _, _)
ScanPresentModes_LastWins(availablePresentModes, i, bestMode) ==
    IF i > Len(availablePresentModes) THEN bestMode
    ELSE IF availablePresentModes[i] = "VK_PRESENT_MODE_MAILBOX_KHR"
         THEN availablePresentModes[i]
         ELSE ScanPresentModes_LastWins(
                  availablePresentModes, i + 1,
                  IF availablePresentModes[i] \in {"VK_PRESENT_MODE_IMMEDIATE_KHR",
                                                    "VK_PRESENT_MODE_FIFO_KHR"}
                  THEN availablePresentModes[i] ELSE bestMode)

ChooseSwapPresentMode_LastWins(availablePresentModes) ==
    ScanPresentModes_LastWins(availablePresentModes, 1, "VK_PRESENT_MODE_FIFO_KHR")

ChooseSwapPresentMode(availablePresentModes) ==
    ScanPresentModes(availablePresentModes, 1, "VK_PRESENT_MODE_FIFO_KHR")

\* A plausible slip: min and max are exchanged, so the window size is not clamped from above.
ChooseSwapExtent_MinMaxSwapped(capabilities, window) ==
    IF capabilities.currentExtent.width # UINT32_MAX
    THEN capabilities.currentExtent
    ELSE [width  |-> StdMin(capabilities.minImageExtent.width,
                            StdMax(capabilities.maxImageExtent.width, ToUint32(window.width))),
          height |-> StdMin(capabilities.minImageExtent.height,
                            StdMax(capabilities.maxImageExtent.height, ToUint32(window.height)))]

\* A plausible slip: the current extent is clamped too.
ChooseSwapExtent_AlwaysClamp(capabilities, window) ==
    LET e == IF capabilities.currentExtent.width # UINT32_MAX
             THEN capabilities.currentExtent
             ELSE [width |-> ToUint32(window.width), height |-> ToUint32(window.height)]
    IN [width  |-> StdMax(capabilities.minImageExtent.width,
                          StdMin(capabilities.maxImageExtent.width, e.width)),
        height |-> StdMax(capabilities.minImageExtent.height,
                          StdMin(capabilities.maxImageExtent.height, e.height))]

\* A plausible slip: the test for the undefined extent is inverted.
ChooseSwapExtent_TestInverted(capabilities, window) ==
    IF capabilities.currentExtent.width = UINT32_MAX
    THEN capabilities.currentExtent
    ELSE [width  |-> StdMax(capabilities.minImageExtent.width,
                            StdMin(capabilities.maxImageExtent.width, ToUint32(window.width))),
          height |-> StdMax(capabilities.minImageExtent.height,
                            StdMin(capabilities.maxImageExtent.height, ToUint32(window.height)))]

\* window is the pair of ints glfwGetWindowSize writes.
ChooseSwapExtent(capabilities, window) ==
    IF capabilities.currentExtent.width # UINT32_MAX
    THEN capabilities.currentExtent
    ELSE [width  |-> StdMax(capabilities.minImageExtent.width,
                            StdMin(capabilities.maxImageExtent.width, ToUint32(window.width))),
          height |-> StdMax(capabilities.minImageExtent.height,
                            StdMin(capabilities.maxImageExtent.height, ToUint32(window.height)))]

RequestedImageCount_NoClamp(capabilities) ==
    (capabilities.minImageCount + 1) % Uint32Modulus

\* The image count Create asks for (uint32_t arithmetic).
RequestedImageCount(capabilities) ==
    LET imageCount == (capabilities.minImageCount + 1) % Uint32Modulus
    IN IF capabilities.maxImageCount > 0 /\ imageCount > capabilities.maxImageCount
       THEN capabilities.maxImageCount
       ELSE imageCount

(***************************************************************************)
(* The platform.  A handle is a positive number, handed out once.  The     *)
(* platform keeps, for every image view, the image it was created from;    *)
(* for every framebuffer, its attachments; for every swapchain, its        *)
(* images; and for every view, framebuffer and swapchain, the number of    *)
(* destroy calls it has been passed to.  The arguments of a call are in    *)
(* the call's record in `calls`.                                           *)
(***************************************************************************)
PlatformInit ==
    [nextHandle |-> 1,
     views |-> <<>>,          \* view handle -> the image it was created from
     framebuffers |-> <<>>,   \* framebuffer handle -> its attachments
     swapchains |-> <<>>,     \* swapchain handle -> the chain's images
     destroys |-> <<>>]       \* handle -> destroy calls received

\* The object and the platform as one value, threaded through the steps of an operation.
State ==
    [m_swapChain |-> m_swapChain,
     m_swapChainImages |-> m_swapChainImages,
     m_swapChainImageViews |-> m_swapChainImageViews,
     m_swapChainFramebuffers |-> m_swapChainFramebuffers,
     m_swapChainImageFormat |-> m_swapChainImageFormat,
     m_swapChainExtent |-> m_swapChainExtent,
     platform |-> platform,
     calls |-> <<>>,
     fatal |-> fatal,
     faultsLeft |-> faultsLeft]

\* The result the platform gives call number idx of api when `fail` names the failing call.
NoFailure == <<"none", 0>>
Result(fail, api, idx) == IF fail = <<api, idx>> THEN "VK_ERROR" ELSE "VK_SUCCESS"

\* One platform call issued by function fn with argument arg (a handle, a create info or,
\* for a query, what the call wrote), answered with res.
Issue(s, fn, api, arg, res) ==
    [s EXCEPT !.calls = Append(@, [fn |-> fn, api |-> api, arg |-> arg, res |-> res]),
              !.faultsLeft = @ - (IF res = "VK_SUCCESS" THEN 0 ELSE 1)]

\* GlfwVulkan::ErrorCheck: a non-success code terminates the operation.
ErrorCheck(s, res) == IF res = "VK_SUCCESS" THEN s ELSE [s EXCEPT !.fatal = TRUE]

\* std::vector::resize(n): the first n elements kept, new elements value-initialised.
Resize(v, n) == [i \in 1..n |-> IF i <= Len(v) THEN v[i] ELSE VK_NULL_HANDLE]

\* A destroy call on handle h: counted against the object h names (a null handle names none).
Destroy(s, fn, api, h) ==
    LET t == Issue(s, fn, api, h, "VK_SUCCESS")
    IN IF h \in DOMAIN s.platform.destroys
       THEN [t EXCEPT !.platform.destroys[h] = @ + 1]
       ELSE t

Extend(f, h, v) == [x \in DOMAIN f \cup {h} |-> IF x = h THEN v ELSE f[x]]

IsLive(p, h) == h \in DOMAIN p.destroys /\ p.destroys[h] = 0
LiveFramebuffers(p) == {h \in DOMAIN p.framebuffers : IsLive(p, h)}
LiveViews(p) == {h \in DOMAIN p.views : IsLive(p, h)}
LiveSwapchains(p) == {h \in DOMAIN p.swapchains : IsLive(p, h)}

(***************************************************************************)
(* Teardown.                                                               *)
(***************************************************************************)
\* vkDeviceWaitIdle called by fn: the call returns once the device is idle; the code
\* does not look at its result.
DeviceWaitIdle(s, fn) == Issue(s, fn, "vkDeviceWaitIdle", VK_NULL_HANDLE, "VK_SUCCESS")

RECURSIVE DestroyFramebuffersFrom(_, _)
DestroyFramebuffersFrom(s, i) ==
    IF i > Len(s.m_swapChainFramebuffers) THEN s
    ELSE DestroyFramebuffersFrom(
             Destroy(s, "CleanupFrameBuffers", "vkDestroyFramebuffer",
                     s.m_swapChainFramebuffers[i]),
             i + 1)

RECURSIVE DestroyImageViewsFrom(_, _)
DestroyImageViewsFrom(s, i) ==
    IF i > Len(s.m_swapChainImageViews) THEN s
    ELSE DestroyImageViewsFrom(
             Destroy(s, "Cleanup", "vkDestroyImageView", s.m_swapChainImageViews[i]),
             i + 1)

\* A plausible slip: the framebuffer teardown takes the image views with it.
CleanupFrameBuffers_AlsoViews(s) ==
    DestroyImageViewsFrom(
        DestroyFramebuffersFrom(
            DeviceWaitIdle(s, "CleanupFrameBuffers"), 1), 1)

\* A plausible slip: the idle wait is left out.
CleanupFrameBuffers_NoWait(s) ==
    DestroyFramebuffersFrom(s, 1)

CleanupFrameBuffers(s) ==
    DestroyFramebuffersFrom(
        DeviceWaitIdle(s, "CleanupFrameBuffers"), 1)

\* A plausible slip: the swapchain is destroyed before the idle wait.
Cleanup_WaitLast(s) ==
    DeviceWaitIdle(DestroyImageViewsFrom(
                       Destroy(s, "Cleanup", "vkDestroySwapchainKHR", s.m_swapChain), 1),
                   "Cleanup")

Cleanup(s) ==
    LET waited == DeviceWaitIdle(s, "Cleanup")
        viewsGone == DestroyImageViewsFrom(waited, 1)
    IN Destroy(viewsGone, "Cleanup", "vkDestroySwapchainKHR", viewsGone.m_swapChain)

\* A plausible slip: the destructor releases the chain before the framebuffers.
Destructor_ChainFirst(s) ==
    CleanupFrameBuffers(Cleanup(s))

\* A plausible slip: the destructor forgets the framebuffer tier.
Destructor_ChainOnly(s) ==
    Cleanup(s)

\* ~Swapchain
Destructor(s) ==
    Cleanup(CleanupFrameBuffers(s))

(***************************************************************************)
(* Creation.                                                               *)
(***************************************************************************)
\* details is what the five queries leave in the SwapChainSupportDetails they fill; each
\* query is recorded with what it wrote (the capabilities, a count, a vector).
QuerySwapChainSupport(s, details, fail) ==
    LET fn == "QuerySwapChainSupport"
        caps == Issue(s, fn, "vkGetPhysicalDeviceSurfaceCapabilitiesKHR",
                      details.capabilities,
                      Result(fail, "vkGetPhysicalDeviceSurfaceCapabilitiesKHR", 1))
        formatCount == Issue(caps, fn, "vkGetPhysicalDeviceSurfaceFormatsKHR",
                             Len(details.formats),
                             Result(fail, "vkGetPhysicalDeviceSurfaceFormatsKHR", 1))
        formats == IF Len(details.formats) # 0
                   THEN Issue(formatCount, fn, "vkGetPhysicalDeviceSurfaceFormatsKHR",
                              details.formats,
                              Result(fail, "vkGetPhysicalDeviceSurfaceFormatsKHR", 2))
                   ELSE formatCount
        presentModeCount == Issue(formats, fn, "vkGetPhysicalDeviceSurfacePresentModesKHR",
                                  Len(details.presentModes),
                                  Result(fail, "vkGetPhysicalDeviceSurfacePresentModesKHR", 1))
    IN IF Len(details.presentModes) # 0
       THEN Issue(presentModeCount, fn, "vkGetPhysicalDeviceSurfacePresentModesKHR",
                  details.presentModes,
                  Result(fail, "vkGetPhysicalDeviceSurfacePresentModesKHR", 2))
       ELSE presentModeCount

\* The loop of CreateImageViews from index i on.
RECURSIVE CreateImageViewsFrom(_, _, _)
CreateImageViewsFrom(s, i, fail) ==
    IF s.fatal \/ i > Len(s.m_swapChainImages) THEN s
    ELSE LET res == Result(fail, "vkCreateImageView", i)
             h == s.platform.nextHandle
             createInfo == [image |-> s.m_swapChainImages[i],
                            viewType |-> "VK_IMAGE_VIEW_TYPE_2D",
                            format |-> s.m_swapChainImageFormat]
             called == Issue(s, "CreateImageViews", "vkCreateImageView", createInfo, res)
             created == IF res = "VK_SUCCESS"
                        THEN [called EXCEPT !.m_swapChainImageViews[i] = h,
                                            !.platform.nextHandle = h + 1,
                                            !.platform.views = Extend(@, h, createInfo.image),
                                            !.platform.destroys = Extend(@, h, 0)]
                        ELSE called
         IN CreateImageViewsFrom(ErrorCheck(created, res), i + 1, fail)

\* A plausible slip: the views are built from the images in reverse order.
CreateImageViews_Reversed(s, fail) ==
    LET n == Len(s.m_swapChainImages)
        built == CreateImageViewsFrom(
                     [s EXCEPT !.m_swapChainImageViews = Resize(@, n)], 1, fail)
    IN [built EXCEPT !.m_swapChainImageViews =
                         [i \in 1..n |-> built.m_swapChainImageViews[n + 1 - i]]]

CreateImageViews(s, fail) ==
    CreateImageViewsFrom(
        [s EXCEPT !.m_swapChainImageViews = Resize(@, Len(s.m_swapChainImages))], 1, fail)

\* A plausible slip: the count the platform reports is not read back.
ImageCountAfterProbe_Requested(requested, probeRes, reported, garbage) ==
    requested

\* imageCount after the count probe of vkGetSwapchainImagesKHR: the variable holds the
\* requested count before the call, the platform writes the chain's count into it, and
\* after a failed probe it holds anything.
ImageCountAfterProbe(requested, probeRes, reported, garbage) ==
    IF probeRes = "VK_SUCCESS" THEN reported ELSE garbage

\* env: the answers of the platform and of the window subsystem during this call.
\*   details       what QuerySwapChainSupport returns
\*   window        what glfwGetWindowSize writes
\*   oob           what an out-of-bounds read of the format vector yields
\*   imageCount    the number of images the platform allocates for the chain
\*   garbageCount  what imageCount holds after a failed count probe
\*   fail          the call that returns a non-success code, or NoFailure
Create(s, env) ==
    LET capabilities == env.details.capabilities
        queried == QuerySwapChainSupport(s, env.details, env.fail)
        surfaceFormat == ChooseSwapSurfaceFormat(env.details.formats, env.oob)
        presentMode == ChooseSwapPresentMode(env.details.presentModes)
        extent == ChooseSwapExtent(capabilities, env.window)
        createInfo == [minImageCount |-> RequestedImageCount(capabilities),
                       imageFormat |-> surfaceFormat.format,
                       imageColorSpace |-> surfaceFormat.colorSpace,
                       imageExtent |-> extent,
                       imageArrayLayers |-> 1,
                       imageUsage |-> "VK_IMAGE_USAGE_COLOR_ATTACHMENT_BIT",
                       imageSharingMode |-> "VK_SHARING_MODE_EXCLUSIVE",
                       compositeAlpha |-> "VK_COMPOSITE_ALPHA_OPAQUE_BIT_KHR",
                       presentMode |-> presentMode,
                       clipped |-> TRUE,
                       oldSwapchain |-> VK_NULL_HANDLE]
        res == Result(env.fail, "vkCreateSwapchainKHR", 1)
        h == s.platform.nextHandle
        chainImages == [i \in 1..env.imageCount |-> h + i]
        called == Issue(queried, "Create", "vkCreateSwapchainKHR", createInfo, res)
        created == IF res = "VK_SUCCESS"
                   THEN [called EXCEPT
                             !.m_swapChain = h,
                             !.platform.nextHandle = h + env.imageCount + 1,
                             !.platform.swapchains =
                                 Extend(@, h, chainImages),
                             !.platform.destroys = Extend(@, h, 0)]
                   ELSE called
        checked == ErrorCheck(created, res)
        probeRes == Result(env.fail, "vkGetSwapchainImagesKHR", 1)
        fillRes == Result(env.fail, "vkGetSwapchainImagesKHR", 2)
        probed == Issue(checked, "Create", "vkGetSwapchainImagesKHR", checked.m_swapChain,
                        probeRes)
        count == ImageCountAfterProbe(createInfo.minImageCount, probeRes, env.imageCount,
                                      env.garbageCount)
        resized == Resize(s.m_swapChainImages, count)
        filled == Issue(probed, "Create", "vkGetSwapchainImagesKHR", checked.m_swapChain,
                        fillRes)
        stored == [filled EXCEPT
                       !.m_swapChainImages =
                           [i \in 1..count |->
                               IF fillRes = "VK_SUCCESS" /\ i <= env.imageCount
                               THEN chainImages[i] ELSE resized[i]],
                       !.m_swapChainImageFormat = surfaceFormat.format,
                       !.m_swapChainExtent = extent]
    IN IF checked.fatal THEN checked ELSE CreateImageViews(stored, env.fail)

\* The loop of CreateFramebuffers from index i on.
RECURSIVE CreateFramebuffersFrom(_, _, _)
CreateFramebuffersFrom(s, i, fail) ==
    IF s.fatal \/ i > Len(s.m_swapChainImageViews) THEN s
    ELSE LET res == Result(fail, "vkCreateFramebuffer", i)
             h == s.platform.nextHandle
             framebufferInfo == [attachmentCount |-> 1,
                                 pAttachments |-> <<s.m_swapChainImageViews[i]>>,
                                 width |-> s.m_swapChainExtent.width,
                                 height |-> s.m_swapChainExtent.height,
                                 layers |-> 1]
             called == Issue(s, "CreateFramebuffers", "vkCreateFramebuffer",
                             framebufferInfo, res)
             created == IF res = "VK_SUCCESS"
                        THEN [called EXCEPT
                                  !.m_swapChainFramebuffers[i] = h,
                                  !.platform.nextHandle = h + 1,
                                  !.platform.framebuffers =
                                      Extend(@, h, framebufferInfo.pAttachments),
                                  !.platform.destroys = Extend(@, h, 0)]
                        ELSE called
         IN CreateFramebuffersFrom(ErrorCheck(created, res), i + 1, fail)

\* A plausible slip: the previous framebuffers are torn down before the new ones are built.
CreateFramebuffers_DestroyFirst(s, fail) ==
    LET cleaned == DestroyFramebuffersFrom(s, 1)
    IN CreateFramebuffersFrom(
           [cleaned EXCEPT !.m_swapChainFramebuffers = Resize(@, Len(s.m_swapChainImageViews))],
           1, fail)

CreateFramebuffers(s, fail) ==
    CreateFramebuffersFrom(
        [s EXCEPT !.m_swapChainFramebuffers = Resize(@, Len(s.m_swapChainImageViews))],
        1, fail)

(***************************************************************************)
(* The environment of the life cycle: the surfaces Create is called on.    *)
(***************************************************************************)
Extent(w, h) == [width |-> w, height |-> h]
UndefinedExtent == Extent(UINT32_MAX, UINT32_MAX)

Surfaces ==
    {[capabilities |-> [minImageCount |-> 2, maxImageCount |-> 0,
                        currentExtent |-> Extent(1920, 1080),
                        minImageExtent |-> Extent(1, 1),
                        maxImageExtent |-> Extent(2048, 2048)],
      formats |-> <<PreferredFormat>>,
      presentModes |-> <<"VK_PRESENT_MODE_FIFO_KHR", "VK_PRESENT_MODE_MAILBOX_KHR">>],
     [capabilities |-> [minImageCount |-> 2, maxImageCount |-> 3,
                        currentExtent |-> UndefinedExtent,
                        minImageExtent |-> Extent(1, 1),
                        maxImageExtent |-> Extent(1024, 768)],
      formats |-> <<[format |-> "VK_FORMAT_UNDEFINED",
                     colorSpace |-> "VK_COLOR_SPACE_SRGB_NONLINEAR_KHR"]>>,
      presentModes |-> <<"VK_PRESENT_MODE_IMMEDIATE_KHR", "VK_PRESENT_MODE_FIFO_KHR">>],
     [capabilities |-> [minImageCount |-> 1, maxImageCount |-> 1,
                        currentExtent |-> UndefinedExtent,
                        minImageExtent |-> Extent(1, 1),
                        maxImageExtent |-> Extent(UINT32_MAX - 1, UINT32_MAX - 1)],
      formats |-> <<>>,
      presentModes |-> <<>>]}

\* What glfwGetWindowSize writes during a Create call.
Windows == {Extent(800, 600), Extent(0, -1)}

\* What the read past the end of an empty format vector may yield.
OobFormats == {PreferredFormat,
               [format |-> "VK_FORMAT_R8G8B8A8_UNORM",
                colorSpace |-> "VK_COLOR_SPACE_ADOBERGB_LINEAR_EXT"]}

QueryCalls == {"vkGetPhysicalDeviceSurfaceCapabilitiesKHR",
               "vkGetPhysicalDeviceSurfaceFormatsKHR",
               "vkGetPhysicalDeviceSurfacePresentModesKHR"}

CreateFailPoints ==
    {NoFailure}
    \cup {<<"vkGetPhysicalDeviceSurfaceCapabilitiesKHR", 1>>, <<"vkCreateSwapchainKHR", 1>>}
    \cup ({"vkGetPhysicalDeviceSurfaceFormatsKHR", "vkGetPhysicalDeviceSurfacePresentModesKHR",
           "vkGetSwapchainImagesKHR"} \X {1, 2})
    \cup ({"vkCreateImageView"} \X (1..MaxImages))

CreateFramebuffersFailPoints ==
    {NoFailure} \cup ({"vkCreateFramebuffer"} \X (1..MaxImages))

\* The details a Create call works on: the surface's, except for the part a failed query
\* was to fill, which holds anything (here: that part of any surface).
DetailsOf(surface, garbage, fail) ==
    [capabilities |-> IF fail[1] = "vkGetPhysicalDeviceSurfaceCapabilitiesKHR"
                      THEN garbage.capabilities ELSE surface.capabilities,
     formats |-> IF fail[1] = "vkGetPhysicalDeviceSurfaceFormatsKHR"
                 THEN garbage.formats ELSE surface.formats,
     presentModes |-> IF fail[1] = "vkGetPhysicalDeviceSurfacePresentModesKHR"
                      THEN garbage.presentModes ELSE surface.presentModes]

(***************************************************************************)
(* The life cycle of one object.                                           *)
(***************************************************************************)
SelIdle == [fn |-> "none", done |-> FALSE]

\* Swapchain::Swapchain
Init ==
    /\ m_swapChain = VK_NULL_HANDLE
    /\ m_swapChainImages = <<>>
    /\ m_swapChainImageViews = <<>>
    /\ m_swapChainFramebuffers = <<>>
    /\ m_swapChainImageFormat = ZeroFormat
    /\ m_swapChainExtent = ZeroExtent
    /\ platform = PlatformInit
    /\ calls = <<>>
    /\ lastOp = "Swapchain"
    /\ fatal = FALSE
    /\ destructed = FALSE
    /\ opCount = 0
    /\ faultsLeft = 0
    /\ sel = SelIdle

\* The state an operation leaves, t being what its steps made of State.
Commit(t, op) ==
    /\ m_swapChain' = t.m_swapChain
    /\ m_swapChainImages' = t.m_swapChainImages
    /\ m_swapChainImageViews' = t.m_swapChainImageViews
    /\ m_swapChainFramebuffers' = t.m_swapChainFramebuffers
    /\ m_swapChainImageFormat' = t.m_swapChainImageFormat
    /\ m_swapChainExtent' = t.m_swapChainExtent
    /\ platform' = t.platform
    /\ calls' = t.calls
    /\ fatal' = t.fatal
    /\ faultsLeft' = t.faultsLeft
    /\ lastOp' = op
    /\ opCount' = opCount + 1
    /\ UNCHANGED sel

Callable == ~fatal /\ ~destructed /\ sel = SelIdle
MayFail(failing) == failing => faultsLeft > 0

DoCreate ==
    /\ Callable /\ opCount < MaxOps
    /\ \E fail \in CreateFailPoints :
          /\ MayFail(fail # NoFailure)
          /\ \E surface \in Surfaces, window \in Windows, n \in 1..MaxImages :
             \E garbage \in (IF fail[1] \in QueryCalls THEN Surfaces ELSE {surface}),
                g \in (IF fail = <<"vkGetSwapchainImagesKHR", 1>> THEN 0..MaxImages ELSE {0}) :
                LET details == DetailsOf(surface, garbage, fail)
                IN \E oob \in (IF details.formats = <<>> THEN OobFormats
                                ELSE {PreferredFormat}) :
                       Commit(Create(State, [details |-> details, window |-> window,
                                             oob |-> oob, imageCount |-> n,
                                             garbageCount |-> g, fail |-> fail]),
                              "Create")
    /\ UNCHANGED destructed

DoCreateFramebuffers ==
    /\ Callable /\ opCount < MaxOps
    /\ \E fail \in CreateFramebuffersFailPoints :
          /\ MayFail(fail # NoFailure)
          /\ Commit(CreateFramebuffers(State, fail), "CreateFramebuffers")
    /\ UNCHANGED destructed

DoCleanupFrameBuffers ==
    /\ Callable /\ opCount < MaxOps
    /\ Commit(CleanupFrameBuffers(State), "CleanupFrameBuffers")
    /\ UNCHANGED destructed

DoCleanup ==
    /\ Callable /\ opCount < MaxOps
    /\ Commit(Cleanup(State), "Cleanup")
    /\ UNCHANGED destructed

\* The object goes out of scope: ~Swapchain runs, once, whatever was called before.
DoDestructor ==
    /\ Callable
    /\ Commit(Destructor(State), "~Swapchain")
    /\ destructed' = TRUE

Next ==
    \/ DoCreate
    \/ DoCreateFramebuffers
    \/ DoCleanupFrameBuffers
    \/ DoCleanup
    \/ DoDestructor

\* Every platform call succeeds.
Spec == Init /\ [][Next]_vars

\* The platform may answer calls with a non-success code, MaxFailures times in a run.
InitFaults ==
    /\ m_swapChain = VK_NULL_HANDLE
    /\ m_swapChainImages = <<>>
    /\ m_swapChainImageViews = <<>>
    /\ m_swapChainFramebuffers = <<>>
    /\ m_swapChainImageFormat = ZeroFormat
    /\ m_swapChainExtent = ZeroExtent
    /\ platform = PlatformInit
    /\ calls = <<>>
    /\ lastOp = "Swapchain"
    /\ fatal = FALSE
    /\ destructed = FALSE
    /\ opCount = 0
    /\ faultsLeft = MaxFailures
    /\ sel = SelIdle

SpecFaults == InitFaults /\ [][Next]_vars

(***************************************************************************)
(* The selection functions on their own.                                   *)
(***************************************************************************)
ExtentLimits == (0..MaxSmallExtent) \cup {UINT32_MAX - 1, UINT32_MAX}
\* What glfwGetWindowSize may write on one axis.
WindowSizes == (0 - MaxSmallExtent - 1)..(MaxSmallExtent + 1)
DefinedExtents == {Extent(1, UINT32_MAX - 1), Extent(UINT32_MAX - 1, 1)}

\* The platform reports minImageExtent <= maxImageExtent on both axes.
ExtentCapabilities ==
    {c \in [currentExtent : DefinedExtents \cup {UndefinedExtent},
            minImageExtent : ExtentLimits \X ExtentLimits,
            maxImageExtent : ExtentLimits \X ExtentLimits] :
        /\ c.minImageExtent[1] <= c.maxImageExtent[1]
        /\ c.minImageExtent[2] <= c.maxImageExtent[2]}

CapabilitiesOf(c) ==
    [currentExtent |-> c.currentExtent,
     minImageExtent |-> Extent(c.minImageExtent[1], c.minImageExtent[2]),
     maxImageExtent |-> Extent(c.maxImageExtent[1], c.maxImageExtent[2])]

ImageCounts == (0..MaxSmallCount) \cup {UINT32_MAX - 1, UINT32_MAX}

\* The platform reports maxImageCount = 0 (no limit) or minImageCount <= maxImageCount.
CountCapabilities ==
    {c \in [minImageCount : ImageCounts, maxImageCount : ImageCounts] :
        c.maxImageCount = 0 \/ c.minImageCount <= c.maxImageCount}

SelectInputs ==
    {[fn |-> "ChooseSwapSurfaceFormat", done |-> FALSE,
      arg |-> [availableFormats |-> f, oob |-> o]] :
        f \in SeqsUpTo(VkSurfaceFormats, MaxFormats), o \in OobFormats}
    \cup {[fn |-> "ChooseSwapPresentMode", done |-> FALSE,
           arg |-> [availablePresentModes |-> m]] :
             m \in SeqsUpTo(VkPresentModes, MaxModes)}
    \cup {[fn |-> "ChooseSwapExtent", done |-> FALSE,
           arg |-> [capabilities |-> CapabilitiesOf(c), window |-> Extent(w[1], w[2])]] :
             c \in ExtentCapabilities, w \in WindowSizes \X WindowSizes}
    \cup {[fn |-> "RequestedImageCount", done |-> FALSE, arg |-> [capabilities |-> c]] :
             c \in CountCapabilities}

InitSelect ==
    /\ m_swapChain = VK_NULL_HANDLE
    /\ m_swapChainImages = <<>>
    /\ m_swapChainImageViews = <<>>
    /\ m_swapChainFramebuffers = <<>>
    /\ m_swapChainImageFormat = ZeroFormat
    /\ m_swapChainExtent = ZeroExtent
    /\ platform = PlatformInit
    /\ calls = <<>>
    /\ lastOp = "Swapchain"
    /\ fatal = FALSE
    /\ destructed = FALSE
    /\ opCount = 0
    /\ faultsLeft = 0
    /\ sel \in SelectInputs

Return(ret) ==
    /\ sel' = [fn |-> sel.fn, done |-> TRUE, arg |-> sel.arg, ret |-> ret]
    /\ UNCHANGED <<m_swapChain, m_swapChainImages, m_swapChainImageViews,
                   m_swapChainFramebuffers, m_swapChainImageFormat, m_swapChainExtent,
                   platform, calls, lastOp, fatal, destructed, opCount, faultsLeft>>

CallChooseSwapSurfaceFormat ==
    /\ sel.fn = "ChooseSwapSurfaceFormat" /\ ~sel.done
    /\ Return(ChooseSwapSurfaceFormat(sel.arg.availableFormats, sel.arg.oob))

CallChooseSwapPresentMode ==
    /\ sel.fn = "ChooseSwapPresentMode" /\ ~sel.done
    /\ Return(ChooseSwapPresentMode(sel.arg.availablePresentModes))

CallChooseSwapExtent ==
    /\ sel.fn = "ChooseSwapExtent" /\ ~sel.done
    /\ Return(ChooseSwapExtent(sel.arg.capabilities, sel.arg.window))

CallRequestedImageCount ==
    /\ sel.fn = "RequestedImageCount" /\ ~sel.done
    /\ Return(RequestedImageCount(sel.arg.capabilities))

NextSelect ==
    \/ CallChooseSwapSurfaceFormat
    \/ CallChooseSwapPresentMode
    \/ CallChooseSwapExtent
    \/ CallRequestedImageCount

SpecSelect == InitSelect /\ [][NextSelect]_vars

(***************************************************************************)
(* Properties of the life cycle.                                           *)
(***************************************************************************)
IsRealHandle(h) == h \in DOMAIN platform.destroys

\* Call e of the coming operation destroys a view or a swapchain that is alive now.
DestroysChainTier(e) ==
    /\ e.api \in {"vkDestroyImageView", "vkDestroySwapchainKHR"}
    /\ IsLive(platform, e.arg)

\* The framebuffers alive now that calls 1..k-1 of the coming operation do not destroy.
LiveFramebuffersBefore(k) ==
    {h \in LiveFramebuffers(platform) :
        \A j \in 1..(k - 1) : ~(calls'[j].api = "vkDestroyFramebuffer" /\ calls'[j].arg = h)}

\* C1 as stated: in every sequence of operations, no view and no swapchain is destroyed
\* while a framebuffer created by CreateFramebuffers is alive.
C1_ChainNeverDestroyedUnderLiveFramebuffers ==
    [][\A k \in DOMAIN calls' :
           DestroysChainTier(calls'[k]) => LiveFramebuffersBefore(k) = {}]_vars

\* C1 amended: when the chain tier is destroyed by the destructor, or by a Cleanup called
\* directly after CleanupFrameBuffers, no framebuffer of the stored framebuffer sequence
\* is alive at any destroy call on a view or on the swapchain.
C1_TeardownOrderKeepsStoredFramebuffersDead ==
    [][(lastOp' = "~Swapchain" \/ (lastOp = "CleanupFrameBuffers" /\ lastOp' = "Cleanup"))
       => \A k \in DOMAIN calls' :
              DestroysChainTier(calls'[k])
              => LiveFramebuffersBefore(k) \cap Range(m_swapChainFramebuffers) = {}]_vars

\* The destructor has destroyed live framebuffers and then live views.
C1_Witness ==
    /\ lastOp = "~Swapchain"
    /\ \E j \in DOMAIN calls, k \in DOMAIN calls :
          /\ j < k
          /\ calls[j].api = "vkDestroyFramebuffer"
          /\ IsRealHandle(calls[j].arg) /\ platform.destroys[calls[j].arg] = 1
          /\ calls[k].api = "vkDestroyImageView"
          /\ IsRealHandle(calls[k].arg) /\ platform.destroys[calls[k].arg] = 1

IsDestroyCall(e) ==
    e.api \in {"vkDestroyFramebuffer", "vkDestroyImageView", "vkDestroySwapchainKHR"}

\* C2: every destroy call of the last operation comes after a device-idle wait issued by
\* the same teardown function, with only calls of that function in between.
C2_IdleWaitBeforeEveryDestroy ==
    \A k \in DOMAIN calls :
        IsDestroyCall(calls[k])
        => \E j \in 1..(k - 1) :
               /\ calls[j].api = "vkDeviceWaitIdle"
               /\ \A i \in j..k : calls[i].fn = calls[k].fn

\* The destructor has destroyed a framebuffer, a view and a swapchain.
C2_Witness ==
    /\ lastOp = "~Swapchain"
    /\ \A api \in {"vkDestroyFramebuffer", "vkDestroyImageView", "vkDestroySwapchainKHR"} :
          \E k \in DOMAIN calls : calls[k].api = api /\ IsRealHandle(calls[k].arg)

ViewsAligned ==
    /\ Len(m_swapChainImageViews) = Len(m_swapChainImages)
    /\ \A i \in DOMAIN m_swapChainImageViews :
          /\ m_swapChainImageViews[i] \in DOMAIN platform.views
          /\ platform.views[m_swapChainImageViews[i]] = m_swapChainImages[i]

FramebuffersAligned ==
    /\ Len(m_swapChainFramebuffers) = Len(m_swapChainImageViews)
    /\ \A i \in DOMAIN m_swapChainFramebuffers :
          /\ m_swapChainFramebuffers[i] \in DOMAIN platform.framebuffers
          /\ platform.framebuffers[m_swapChainFramebuffers[i]] = <<m_swapChainImageViews[i]>>

\* C3 as stated: view[i] is built from image[i], and whenever the framebuffer sequence
\* is populated it is as long as the view sequence and framebuffer[i] has the current
\* view[i] as its sole attachment.
C3_IndexAlignment ==
    /\ ViewsAligned
    /\ m_swapChainFramebuffers # <<>> => FramebuffersAligned

\* C3 amended: after every operation that the error check did not terminate, view[i]
\* is built from image[i]; the framebuffers are aligned with the current views when
\* CreateFramebuffers returns, and stay so until the next Create.
C3_AlignedUntilNextCreate ==
    [][~fatal' =>
          /\ ViewsAligned'
          /\ lastOp' = "CreateFramebuffers" => FramebuffersAligned'
          /\ (FramebuffersAligned /\ lastOp' # "Create") => FramebuffersAligned']_vars

\* Framebuffers were rebuilt for a second chain of two or more images, after an earlier
\* set of framebuffers.
C3_Witness ==
    /\ lastOp = "CreateFramebuffers"
    /\ Cardinality(DOMAIN platform.swapchains) = 2
    /\ Len(m_swapChainFramebuffers) >= 2
    /\ DOMAIN platform.framebuffers \ Range(m_swapChainFramebuffers) # {}
    /\ FramebuffersAligned

\* C4: a non-success result of a call made during Create or CreateFramebuffers ends the
\* operation: it is the last call of the operation and the error check has fired.
C4_EveryResultChecked ==
    \A k \in DOMAIN calls :
        calls[k].res # "VK_SUCCESS" => (fatal /\ k = Len(calls))

(***************************************************************************)
(* Properties of the selection functions.                                  *)
(***************************************************************************)
Returned(fn) == sel.fn = fn /\ sel.done

\* C5: a sequence holding both mailbox and immediate yields mailbox.
C5_MailboxBeatsImmediate ==
    (/\ Returned("ChooseSwapPresentMode")
     /\ "VK_PRESENT_MODE_MAILBOX_KHR" \in Range(sel.arg.availablePresentModes)
     /\ "VK_PRESENT_MODE_IMMEDIATE_KHR" \in Range(sel.arg.availablePresentModes))
    => sel.ret = "VK_PRESENT_MODE_MAILBOX_KHR"

\* Immediate stands before mailbox, and mailbox is returned.
C5_Witness ==
    /\ Returned("ChooseSwapPresentMode")
    /\ Len(sel.arg.availablePresentModes) >= 2
    /\ sel.arg.availablePresentModes[1] = "VK_PRESENT_MODE_IMMEDIATE_KHR"
    /\ sel.arg.availablePresentModes[2] = "VK_PRESENT_MODE_MAILBOX_KHR"
    /\ sel.ret = "VK_PRESENT_MODE_MAILBOX_KHR"

\* C6: a sequence holding neither mailbox nor immediate yields FIFO.
C6_FifoWithoutMailboxAndImmediate ==
    (/\ Returned("ChooseSwapPresentMode")
     /\ "VK_PRESENT_MODE_MAILBOX_KHR" \notin Range(sel.arg.availablePresentModes)
     /\ "VK_PRESENT_MODE_IMMEDIATE_KHR" \notin Range(sel.arg.availablePresentModes))
    => sel.ret = "VK_PRESENT_MODE_FIFO_KHR"

\* A sequence that does not list FIFO yields FIFO.
C6_Witness ==
    /\ Returned("ChooseSwapPresentMode")
    /\ sel.arg.availablePresentModes = <<"VK_PRESENT_MODE_FIFO_RELAXED_KHR">>
    /\ sel.ret = "VK_PRESENT_MODE_FIFO_KHR"

IsSentinelSequence(availableFormats) ==
    Len(availableFormats) = 1 /\ availableFormats[1].format = "VK_FORMAT_UNDEFINED"

\* C7: the sequence made of one entry of undefined format yields the preferred pair.
C7_SentinelYieldsPreferred ==
    (Returned("ChooseSwapSurfaceFormat") /\ IsSentinelSequence(sel.arg.availableFormats))
    => sel.ret = PreferredFormat

\* The sentinel carries another colour space than the preferred pair.
C7_Witness ==
    /\ Returned("ChooseSwapSurfaceFormat")
    /\ sel.arg.availableFormats = <<[format |-> "VK_FORMAT_UNDEFINED",
                                     colorSpace |-> "VK_COLOR_SPACE_ADOBERGB_LINEAR_EXT"]>>
    /\ sel.ret = PreferredFormat

NoPreferredEntry(availableFormats) ==
    \A i \in DOMAIN availableFormats : availableFormats[i] # PreferredFormat

\* C8 as stated: a non-empty sequence without the preferred pair yields its first entry.
C8_FallbackIsFirst ==
    (/\ Returned("ChooseSwapSurfaceFormat")
     /\ sel.arg.availableFormats # <<>>
     /\ NoPreferredEntry(sel.arg.availableFormats))
    => sel.ret = sel.arg.availableFormats[1]

\* C8 amended: a non-empty sequence without the preferred pair, other than the sequence
\* made of one entry of undefined format, yields its first entry.
C8_FallbackIsFirstUnlessSentinel ==
    (/\ Returned("ChooseSwapSurfaceFormat")
     /\ sel.arg.availableFormats # <<>>
     /\ NoPreferredEntry(sel.arg.availableFormats)
     /\ ~IsSentinelSequence(sel.arg.availableFormats))
    => sel.ret = sel.arg.availableFormats[1]

\* One entry matches the format only, another the colour space only.
C8_Witness ==
    /\ Returned("ChooseSwapSurfaceFormat")
    /\ sel.arg.availableFormats =
           <<[format |-> "VK_FORMAT_R8G8B8A8_UNORM",
              colorSpace |-> "VK_COLOR_SPACE_SRGB_NONLINEAR_KHR"],
             [format |-> "VK_FORMAT_B8G8R8A8_UNORM",
              colorSpace |-> "VK_COLOR_SPACE_ADOBERGB_LINEAR_EXT"]>>
    /\ sel.ret = sel.arg.availableFormats[1]

\* r is v clamped into lo..hi.
IsClamped(r, v, lo, hi) ==
    /\ lo <= r /\ r <= hi
    /\ (lo <= v /\ v <= hi) => r = v
    /\ v < lo => r = lo
    /\ v > hi => r = hi

\* C9: with an undefined current extent, each axis of the result is the window size of
\* that axis, converted to unsigned, clamped into the limits of that axis.
C9_UndefinedExtentClampsWindow ==
    (/\ Returned("ChooseSwapExtent")
     /\ sel.arg.capabilities.currentExtent.width = UINT32_MAX)
    => LET c == sel.arg.capabilities
       IN /\ IsClamped(sel.ret.width, ToUint32(sel.arg.window.width),
                       c.minImageExtent.width, c.maxImageExtent.width)
          /\ IsClamped(sel.ret.height, ToUint32(sel.arg.window.height),
                       c.minImageExtent.height, c.maxImageExtent.height)

\* A negative width is clamped to the maximum and a zero height to the minimum.
C9_Witness ==
    /\ Returned("ChooseSwapExtent")
    /\ sel.arg.capabilities.currentExtent.width = UINT32_MAX
    /\ sel.arg.window.width < 0
    /\ sel.arg.window.height = 0
    /\ sel.arg.capabilities.minImageExtent.width < sel.arg.capabilities.maxImageExtent.width
    /\ sel.arg.capabilities.maxImageExtent.width < UINT32_MAX
    /\ sel.arg.capabilities.minImageExtent.height > 0
    /\ sel.ret = Extent(sel.arg.capabilities.maxImageExtent.width,
                        sel.arg.capabilities.minImageExtent.height)

\* C10: a defined current extent is returned as it is.
C10_DefinedExtentReturned ==
    (/\ Returned("ChooseSwapExtent")
     /\ sel.arg.capabilities.currentExtent.width # UINT32_MAX)
    => sel.ret = sel.arg.capabilities.currentExtent

\* The current extent lies outside the limits and differs from the window size.
C10_Witness ==
    /\ Returned("ChooseSwapExtent")
    /\ sel.arg.capabilities.currentExtent = Extent(1, UINT32_MAX - 1)
    /\ sel.arg.capabilities.minImageExtent.width > 1
    /\ sel.arg.capabilities.maxImageExtent.height < UINT32_MAX - 1
    /\ sel.arg.window = Extent(0, 0)
    /\ sel.ret = Extent(1, UINT32_MAX - 1)

(***************************************************************************)
(* Properties of the requested image count.                                *)
(***************************************************************************)
\* C11: the image count Create requests lies in [minImageCount, maxImageCount],
\* maxImageCount = 0 meaning no upper limit, for every pair of limits the platform
\* may report, the largest unsigned value included.
C11_ImageCountWithinLimits ==
    Returned("RequestedImageCount") =>
        /\ sel.ret >= sel.arg.capabilities.minImageCount
        /\ sel.arg.capabilities.maxImageCount = 0
               \/ sel.ret <= sel.arg.capabilities.maxImageCount

\* minImageCount + 1 as a uint32_t.
Succ32(n) == IF n = UINT32_MAX THEN 0 ELSE n + 1

\* C12: the requested image count is minImageCount + 1 (in unsigned arithmetic),
\* reduced to maxImageCount exactly when maxImageCount > 0 and minImageCount + 1
\* exceeds it; limits (2, 3) give 3 and limits (2, 0) give 3.
C12_ImageCountIsMinPlusOneClamped ==
    Returned("RequestedImageCount") =>
        LET min == sel.arg.capabilities.minImageCount
            max == sel.arg.capabilities.maxImageCount
        IN /\ sel.ret = IF max > 0 /\ Succ32(min) > max THEN max ELSE Succ32(min)
           /\ (sel.ret = max /\ sel.ret # Succ32(min)) <=> (max > 0 /\ Succ32(min) > max)
           /\ (min = 2 /\ max \in {0, 3}) => sel.ret = 3

\* Limits (2, 2): the count is reduced from 3 to the upper limit.
C12_Witness ==
    /\ Returned("RequestedImageCount")
    /\ sel.arg.capabilities = [minImageCount |-> 2, maxImageCount |-> 2]
    /\ sel.ret = 2

(***************************************************************************)
(* Properties of Create.                                                   *)
(***************************************************************************)
\* The position in `calls` of the n-th call of api (0 when there is none).
RECURSIVE CallIndexFrom(_, _, _)
CallIndexFrom(api, n, k) ==
    IF k > Len(calls) THEN 0
    ELSE IF calls[k].api = api
         THEN IF n = 1 THEN k ELSE CallIndexFrom(api, n - 1, k + 1)
         ELSE CallIndexFrom(api, n, k + 1)

CallIndex(api, n) == CallIndexFrom(api, n, 1)

\* The create info the last Create handed to vkCreateSwapchainKHR.
RequestedChain == calls[CallIndex("vkCreateSwapchainKHR", 1)].arg

CreateCompleted == lastOp = "Create" /\ ~fatal /\ CallIndex("vkCreateSwapchainKHR", 1) > 0

\* C13: after Create the stored image sequence holds exactly the images the platform
\* reports for the created chain, whatever count was requested, and the view sequence
\* has the same length.
C13_StoredImagesAreThePlatforms ==
    CreateCompleted =>
        /\ Len(m_swapChainImages) = Len(platform.swapchains[m_swapChain])
        /\ m_swapChainImages = platform.swapchains[m_swapChain]
        /\ Len(m_swapChainImageViews) = Len(platform.swapchains[m_swapChain])

\* The platform allocated fewer images than requested, after a Create that stored more.
C13_Witness ==
    /\ CreateCompleted
    /\ opCount >= 2
    /\ Len(m_swapChainImages) < RequestedChain.minImageCount
    /\ Len(m_swapChainImages) = 1
    /\ Cardinality(DOMAIN platform.swapchains) >= 2

\* The platform allocated more images than requested.
C13_MoreThanRequested ==
    /\ CreateCompleted
    /\ Len(m_swapChainImages) > RequestedChain.minImageCount

(***************************************************************************)
(* Properties of the framebuffer tier.                                     *)
(***************************************************************************)
\* Framebuffers that are alive and in no slot of the stored sequence.
LostFramebuffers(p, stored) == {h \in LiveFramebuffers(p) : h \notin Range(stored)}

\* C14: CreateFramebuffers issues no destroy call and changes no destroy count; it
\* leaves one freshly created handle per image view in the stored sequence; and a live
\* framebuffer that is no longer stored is never stored again and never destroyed, by
\* whatever is called later.
C14_CreateFramebuffersReplacesAndLeaks ==
    [][/\ lastOp' = "CreateFramebuffers" =>
             /\ \A k \in 1..Len(calls') : ~IsDestroyCall(calls'[k])
             /\ \A h \in DOMAIN platform.destroys : platform'.destroys[h] = platform.destroys[h]
             /\ Len(m_swapChainFramebuffers') = Len(m_swapChainImageViews)
             /\ \A i \in 1..Len(m_swapChainFramebuffers') :
                    /\ m_swapChainFramebuffers'[i] \notin DOMAIN platform.framebuffers
                    /\ m_swapChainFramebuffers'[i] \in LiveFramebuffers(platform')
             /\ LiveFramebuffers(platform) \subseteq
                    LostFramebuffers(platform', m_swapChainFramebuffers')
       /\ LostFramebuffers(platform, m_swapChainFramebuffers)
              \subseteq LostFramebuffers(platform', m_swapChainFramebuffers')
      ]_vars

\* CreateFramebuffers was called twice without CleanupFrameBuffers in between, and the
\* first set is still alive after the destructor.
C14_Witness ==
    /\ lastOp = "~Swapchain"
    /\ Cardinality(LostFramebuffers(platform, m_swapChainFramebuffers)) >= 2
    /\ \A i \in 1..Len(m_swapChainFramebuffers) :
           platform.destroys[m_swapChainFramebuffers[i]] = 1
    /\ Len(m_swapChainFramebuffers) >= 2

(***************************************************************************)
(* The end-to-end configuration.                                           *)
(***************************************************************************)
\* What the queries of the last Create wrote: the capabilities, and the format and
\* present-mode vectors (filled by the second call of each pair, made for a count # 0).
QueriedCapabilities == calls[CallIndex("vkGetPhysicalDeviceSurfaceCapabilitiesKHR", 1)].arg

QueriedFormats ==
    IF CallIndex("vkGetPhysicalDeviceSurfaceFormatsKHR", 2) = 0 THEN <<>>
    ELSE calls[CallIndex("vkGetPhysicalDeviceSurfaceFormatsKHR", 2)].arg

QueriedPresentModes ==
    IF CallIndex("vkGetPhysicalDeviceSurfacePresentModesKHR", 2) = 0 THEN <<>>
    ELSE calls[CallIndex("vkGetPhysicalDeviceSurfacePresentModesKHR", 2)].arg

ScenarioQueried ==
    /\ CreateCompleted
    /\ QueriedCapabilities.minImageCount = 2
    /\ QueriedCapabilities.maxImageCount = 0
    /\ QueriedCapabilities.currentExtent = Extent(1920, 1080)
    /\ QueriedFormats = <<PreferredFormat>>
    /\ Range(QueriedPresentModes) = {"VK_PRESENT_MODE_FIFO_KHR", "VK_PRESENT_MODE_MAILBOX_KHR"}

\* C15: on a surface with minImageCount 2, maxImageCount 0, current extent (1920, 1080),
\* the one format (BGRA8, sRGB) and the present modes FIFO and MAILBOX, Create asks for a
\* chain of format (BGRA8, sRGB), present mode MAILBOX, extent (1920, 1080) and 3 images,
\* whatever the size of the window, and stores that format and extent.
C15_EndToEndConfiguration ==
    ScenarioQueried =>
        /\ RequestedChain.imageFormat = "VK_FORMAT_B8G8R8A8_UNORM"
        /\ RequestedChain.imageColorSpace = "VK_COLOR_SPACE_SRGB_NONLINEAR_KHR"
        /\ RequestedChain.presentMode = "VK_PRESENT_MODE_MAILBOX_KHR"
        /\ RequestedChain.imageExtent = Extent(1920, 1080)
        /\ RequestedChain.minImageCount = 3
        /\ m_swapChainImageFormat = "VK_FORMAT_B8G8R8A8_UNORM"
        /\ m_swapChainExtent = Extent(1920, 1080)

\* The scenario's surface, on an object whose previous chain had another extent.
C15_Witness ==
    /\ ScenarioQueried
    /\ opCount >= 2
    /\ RequestedChain.minImageCount = 3
    /\ Len(m_swapChainImageViews) = 2

\* C16: CleanupFrameBuffers calls neither vkDestroyImageView nor vkDestroySwapchainKHR,
\* changes the destroy count of no image view and of no swapchain, and leaves the
\* swapchain handle, the image sequence, the view sequence, the format and the extent
\* as they were.
C16_CleanupFrameBuffersLeavesChainTier ==
    [][lastOp' = "CleanupFrameBuffers" =>
          /\ \A k \in 1..Len(calls') :
                 calls'[k].api \in {"vkDeviceWaitIdle", "vkDestroyFramebuffer"}
          /\ \A h \in DOMAIN platform.views \cup DOMAIN platform.swapchains :
                 platform'.destroys[h] = platform.destroys[h]
          /\ LiveViews(platform') = LiveViews(platform)
          /\ LiveSwapchains(platform') = LiveSwapchains(platform)
          /\ m_swapChain' = m_swapChain
          /\ m_swapChainImages' = m_swapChainImages
          /\ m_swapChainImageViews' = m_swapChainImageViews
          /\ m_swapChainImageFormat' = m_swapChainImageFormat
          /\ m_swapChainExtent' = m_swapChainExtent
      ]_vars

\* CleanupFrameBuffers has destroyed two framebuffers of an object whose views and
\* swapchain are alive.
C16_Witness ==
    /\ lastOp = "CleanupFrameBuffers"
    /\ Len(calls) = 3
    /\ Len(m_swapChainFramebuffers) = 2
    /\ Len(m_swapChainImageViews) = 2
    /\ \A i \in 1..2 : IsLive(platform, m_swapChainImageViews[i])
    /\ IsLive(platform, m_swapChain)
    /\ \A i \in 1..2 : platform.destroys[m_swapChainFramebuffers[i]] = 1

(***************************************************************************)
(* Properties of the destructor.                                           *)
(***************************************************************************)
\* C17: the calls of the destructor are, in this order: an idle wait, one
\* vkDestroyFramebuffer per stored framebuffer, a second idle wait, one
\* vkDestroyImageView per stored image view, and vkDestroySwapchainKHR on the stored
\* swapchain handle as the last call.
C17_DestructorOrder ==
    lastOp = "~Swapchain" =>
        LET nf == Len(m_swapChainFramebuffers)
            nv == Len(m_swapChainImageViews)
        IN /\ Len(calls) = nf + nv + 3
           /\ calls[1].api = "vkDeviceWaitIdle"
           /\ \A i \in 1..nf :
                  /\ calls[1 + i].api = "vkDestroyFramebuffer"
                  /\ calls[1 + i].arg = m_swapChainFramebuffers[i]
           /\ calls[nf + 2].api = "vkDeviceWaitIdle"
           /\ \A i \in 1..nv :
                  /\ calls[nf + 2 + i].api = "vkDestroyImageView"
                  /\ calls[nf + 2 + i].arg = m_swapChainImageViews[i]
           /\ calls[nf + nv + 3].api = "vkDestroySwapchainKHR"
           /\ calls[nf + nv + 3].arg = m_swapChain

\* The destructor of an object with two framebuffers, two views and a swapchain, all
\* alive when it ran.
C17_Witness ==
    /\ lastOp = "~Swapchain"
    /\ Len(m_swapChainFramebuffers) = 2
    /\ Len(m_swapChainImageViews) = 2
    /\ Len(calls) = 7
    /\ \A k \in {2, 3, 5, 6, 7} : platform.destroys[calls[k].arg] = 1

(***************************************************************************)
(* More properties of the selection functions.                             *)
(***************************************************************************)
\* C18: a sequence that lists immediate and not mailbox yields immediate, wherever FIFO
\* stands in it.
C18_ImmediateBeatsFifo ==
    (/\ Returned("ChooseSwapPresentMode")
     /\ "VK_PRESENT_MODE_IMMEDIATE_KHR" \in Range(sel.arg.availablePresentModes)
     /\ "VK_PRESENT_MODE_MAILBOX_KHR" \notin Range(sel.arg.availablePresentModes))
    => sel.ret = "VK_PRESENT_MODE_IMMEDIATE_KHR"

\* FIFO stands after immediate, and immediate is returned.
C18_Witness ==
    /\ Returned("ChooseSwapPresentMode")
    /\ sel.arg.availablePresentModes =
           <<"VK_PRESENT_MODE_FIFO_KHR", "VK_PRESENT_MODE_IMMEDIATE_KHR",
             "VK_PRESENT_MODE_FIFO_KHR">>
    /\ sel.ret = "VK_PRESENT_MODE_IMMEDIATE_KHR"

(***************************************************************************)
(* Safety of the handles and of the format sequence.                       *)
(***************************************************************************)
\* C19: whatever sequence of Create, CreateFramebuffers, CleanupFrameBuffers, Cleanup
\* and the destructor is called, every framebuffer, image view and swapchain handle
\* has been passed to a destroy call at most once.
C19_EveryHandleDestroyedAtMostOnce ==
    \A h \in DOMAIN platform.destroys : platform.destroys[h] <= 1

\* The surface format the last Create asked for.
RequestedSurfaceFormat ==
    [format |-> RequestedChain.imageFormat, colorSpace |-> RequestedChain.imageColorSpace]

\* C20: the surface format Create takes from ChooseSwapSurfaceFormat is the preferred
\* pair or an element of the format sequence the query returned, the empty sequence
\* included: nothing is read from outside the sequence.
C20_FormatComesFromTheSequence ==
    (lastOp = "Create" /\ CallIndex("vkCreateSwapchainKHR", 1) > 0) =>
        \/ RequestedSurfaceFormat = PreferredFormat
        \/ RequestedSurfaceFormat \in Range(QueriedFormats)

====
